---- MODULE Spec2Model ----
(***************************************************************************)
(* Model of the UITraps client-side orchestrator: the useUnifiedInput hook *)
(* (frontend/src/hooks/useUnifiedInput.ts), the useChat transcript, the    *)
(* elapsed-time tracker and the request functions of the API client.       *)
(*                                                                         *)
(* Texts are TLA+ strings; trimming, length checks and the two URL regexes *)
(* are computed on them character by character.  A network call is a       *)
(* record in `inflight` from the moment the hook issues it until its       *)
(* promise settles; the code after each `await` is one action.             *)
(***************************************************************************)
EXTENDS Integers, Sequences, FiniteSets, TLC

(***************************************************************************)
(* Bounds of the model.                                                    *)
(***************************************************************************)
MaxRequests == 2   \* network requests issued in one behaviour
MaxMessages == 2   \* transcript entries kept in one behaviour
MaxElapsed == 1    \* seconds the elapsed-time tracker counts up to
CompletionsModulus == 2  \* onAnalysisComplete invocations are counted modulo this

(***************************************************************************)
(* Strings.                                                                *)
(***************************************************************************)
Ch(s, i) == SubSeq(s, i, i)

IsSpace(c) == c \in {" ", "\t", "\n", "\r"}

RECURSIVE TrimStart(_)
TrimStart(s) ==
  IF Len(s) > 0 /\ IsSpace(Ch(s, 1)) THEN TrimStart(SubSeq(s, 2, Len(s))) ELSE s

RECURSIVE TrimEnd(_)
TrimEnd(s) ==
  IF Len(s) > 0 /\ IsSpace(Ch(s, Len(s))) THEN TrimEnd(SubSeq(s, 1, Len(s) - 1)) ELSE s

\* a trim that removes nothing
TrimNothing(s) == s

\* String.prototype.trim
Trim(s) == TrimEnd(TrimStart(s))

UpperLetters == "ABCDEFGHIJKLMNOPQRSTUVWXYZ"
LowerLetters == "abcdefghijklmnopqrstuvwxyz"
Digits == "0123456789"

UpperSet == {Ch(UpperLetters, i) : i \in 1..26}
LowerSet == {Ch(LowerLetters, i) : i \in 1..26}
DigitSet == {Ch(Digits, i) : i \in 1..10}

LowerMap ==
  [c \in UpperSet |-> Ch(LowerLetters, CHOOSE i \in 1..26 : Ch(UpperLetters, i) = c)]

LowerCh(c) == IF c \in UpperSet THEN LowerMap[c] ELSE c

\* String.prototype.toLowerCase
RECURSIVE ToLowerCase(_)
ToLowerCase(s) ==
  IF Len(s) = 0 THEN s ELSE LowerCh(Ch(s, 1)) \o ToLowerCase(SubSeq(s, 2, Len(s)))

IsAlnum(c) == c \in LowerSet \/ c \in UpperSet \/ c \in DigitSet

\* the literal lit occurs in s at position i
LitAt(s, i, lit) ==
  /\ i + Len(lit) - 1 <= Len(s)
  /\ SubSeq(s, i, i + Len(lit) - 1) = lit

\* String.prototype.includes
Includes(s, lit) ==
  \/ Len(lit) = 0
  \/ \E i \in 1..(Len(s) - Len(lit) + 1) : SubSeq(s, i, i + Len(lit) - 1) = lit

\* number of characters of s from position i on that are alphanumeric
RECURSIVE AlnumRun(_, _)
AlnumRun(s, i) ==
  IF i <= Len(s) /\ IsAlnum(Ch(s, i)) THEN 1 + AlnumRun(s, i + 1) ELSE 0

(***************************************************************************)
(* URL detection.  Both patterns carry the i flag: they are matched on the *)
(* lower-cased text, whose positions are those of the text.                *)
(***************************************************************************)
\* position just after "http", "https" and "://" when s has that prefix at i, else 0
SchemeEnd(s, i) ==
  IF LitAt(s, i, "https://") THEN i + 8
  ELSE IF LitAt(s, i, "http://") THEN i + 7
  ELSE 0

\* end position of a match of FIGMA_URL_PATTERN that starts at i, else 0
FigmaMatchEnd(s, i) ==
  LET a == SchemeEnd(s, i)
      b == IF a # 0 /\ LitAt(s, a, "www.") THEN a + 4 ELSE a
      c == IF b # 0 /\ LitAt(s, b, "figma.com/") THEN b + 10 ELSE 0
      d == IF c = 0 THEN 0
           ELSE IF LitAt(s, c, "file/") THEN c + 5
           ELSE IF LitAt(s, c, "design/") THEN c + 7
           ELSE IF LitAt(s, c, "proto/") THEN c + 6
           ELSE 0
  IN  IF d # 0 /\ AlnumRun(s, d) > 0 THEN d + AlnumRun(s, d) - 1 ELSE 0

FigmaStarts(s) ==
  {i \in 1..Len(s) : Ch(s, i) = "h" /\ FigmaMatchEnd(s, i) # 0}

Min(S) == CHOOSE x \in S : \A y \in S : x <= y

\* FIGMA_URL_PATTERN.test(s)
FIGMA_URL_PATTERN(s) == FigmaStarts(ToLowerCase(s)) # {}

\* s.match(FIGMA_URL_PATTERN)[0]: the leftmost match, its key taken greedily
FigmaMatch(s) ==
  LET l == ToLowerCase(s)
      i == Min(FigmaStarts(l))
  IN  SubSeq(s, i, FigmaMatchEnd(l, i))

\* WEBSITE_URL_PATTERN.test(s): ^https?:\/\/[^\s]+$
WEBSITE_URL_PATTERN(s) ==
  LET a == SchemeEnd(ToLowerCase(s), 1)
  IN  /\ a # 0
      /\ a <= Len(s)
      /\ \A i \in a..Len(s) : ~IsSpace(Ch(s, i))

\* a detection that tries the website pattern before the Figma pattern
detectUrlTypeWebsiteFirst(text) ==
  LET trimmed == Trim(text)
  IN  IF WEBSITE_URL_PATTERN(trimmed) /\ ~Includes(trimmed, " ") THEN "url"
      ELSE IF FIGMA_URL_PATTERN(trimmed) THEN "figma"
      ELSE "null"

detectUrlType(text) ==
  LET trimmed == Trim(text)
  IN  IF FIGMA_URL_PATTERN(trimmed) THEN "figma"
      ELSE IF WEBSITE_URL_PATTERN(trimmed) /\ ~Includes(trimmed, " ") THEN "url"
      ELSE "null"

\* a URL or the string Null
Null == "<null>"

extractUrl(text) ==
  LET trimmed == Trim(text)
  IN  IF FIGMA_URL_PATTERN(trimmed) THEN FigmaMatch(trimmed)
      ELSE IF WEBSITE_URL_PATTERN(trimmed) THEN trimmed
      ELSE Null

\* JavaScript truthiness of a string | null value
Truthy(s) == s # Null /\ s # ""

(***************************************************************************)
(* Inputs the actions draw from.                                           *)
(***************************************************************************)
FigmaText == "http://figma.com/file/a1/x"
SiteText == "http://a.io"

\* texts typed into the input box to ask or to start an analysis
RequestPool == {"", FigmaText, SiteText}

\* texts typed into the input box in reply to a context prompt: one that
\* passes every validator, and ones that are too short for some or all
AnswerPool == {"", "Mobile app users"}
ShortAnswerPool == {"hi", "Novice", "  "}

\* values typed into the context fields of the form
ContextPool == {"", "Enterprise developers"}

\* input texts for the mode classifier: blank, prose, website URLs in
\* several spellings, Figma URLs alone and inside prose, near misses
ClassifyPool ==
  {"", "  ", "what is a trap", "http://a.io", " https://a.io ", "HTTP://A.IO",
   "see http://a.io", "http://a.io b", "ftp://a.io", "http://",
   "http://figma.com/file/a1/x", "see https://www.figma.com/design/Ab1 now",
   "http://figma.com/board/a1", "figma.com/file/a1", "http://figma.com/proto/ x"}

\* questions for the chat
ChatPool == {"what is a trap", "how to avoid it", "  why?  "}

\* attached file sets (file names)
FilePool == {<<>>, <<"a.png">>}

ContentTypes == {"website", "mobile_app", "desktop_app", "game", "other"}
ContentTypePool == {"mobile_app"}

\* ways a request function fails: the client timer aborts the fetch (it
\* throws its own timeout Error), or the fetch or the server fails (it
\* rethrows that Error)
ErrorKinds == {"timeout", "http"}

\* mode field of the /api/ask response
ResultModes == {"analysis", "hybrid", "chat"}

(***************************************************************************)
(* State.                                                                  *)
(***************************************************************************)
VARIABLES
  token,                  \* options.token, "" when the credential is absent
  inputText, files,       \* useState: input box and attached files
  users, expertise, tasks, format, contentType,
  contextGatheringPhase, pendingQuestion,
  gatheringStartedBy,     \* history: the kind of submit that started the gathering
  analysisPhase, estimate, pendingUrl,
  isUnifiedLoading,
  elapsedTime, isRunning, startTimeRef,    \* useElapsedTime
  interval,               \* intervalRef is set, and the intervals that are live
  messages, chatLoading, chatError,        \* useChat
  inflight,               \* network calls whose promise has not settled
  issued,                 \* number of network calls issued so far
  completions,            \* number of onAnalysisComplete invocations (modulo)
  view,                   \* App: the view shown ("chat", "report", "history")
  history, now,           \* localStorage list of past analyses, Date.now()
  analyzerFiles,          \* useAnalyzer state.files, set through FileUpload
  analyzer,               \* useAnalyzer: reducer state, controller ref, requests
  call                    \* one invocation of a request function of the client

vars == <<token, inputText, files, users, expertise, tasks, format, contentType,
          contextGatheringPhase, pendingQuestion, gatheringStartedBy,
          analysisPhase, estimate,
          pendingUrl, isUnifiedLoading, elapsedTime, isRunning, startTimeRef,
          interval, messages, chatLoading, chatError, inflight, issued, completions,
          view, history, now, analyzerFiles, analyzer, call>>

clientVars == <<view, history, now, analyzerFiles, analyzer, call>>
inputVars == <<inputText, files>>
contextVars == <<users, expertise, tasks, format, contentType>>
gatherVars == <<contextGatheringPhase, pendingQuestion, gatheringStartedBy>>
pipelineVars == <<analysisPhase, estimate, pendingUrl, isUnifiedLoading>>
elapsedVars == <<elapsedTime, isRunning, startTimeRef, interval>>
chatVars == <<messages, chatLoading, chatError>>
netVars == <<inflight, issued, completions>>

NullEstimate == [type |-> "null"]

\* the reducer state of useAnalyzer without its files; report stands for
\* reportHtml, reportMarkdown, statistics and usage
initialState ==
  [view |-> "form", users |-> "", expertise |-> "", tasks |-> "", format |-> "",
   contentType |-> "website", isSubmitting |-> FALSE, isEstimating |-> FALSE,
   estimate |-> NullEstimate, report |-> Null, error |-> Null]

\* no request function of the client has been invoked
NoCall ==
  [fn |-> "none", state |-> "none", timer |-> "unset", signal |-> "none",
   server |-> "none", cause |-> "none", error |-> Null, settled |-> 0]

Init ==
  /\ token = "jwt"
  /\ inputText = ""
  /\ files = <<>>
  /\ users = ""
  /\ expertise = ""
  /\ tasks = ""
  /\ format = ""
  /\ contentType = "website"
  /\ contextGatheringPhase = "idle"
  /\ pendingQuestion = ""
  /\ gatheringStartedBy = "none"
  /\ analysisPhase = "idle"
  /\ estimate = NullEstimate
  /\ pendingUrl = Null
  /\ isUnifiedLoading = FALSE
  /\ elapsedTime = 0
  /\ isRunning = FALSE
  /\ startTimeRef = FALSE
  /\ interval = [ref |-> FALSE, live |-> 0]
  /\ messages = <<>>
  /\ chatLoading = FALSE
  /\ chatError = Null
  /\ inflight = {}
  /\ issued = 0
  /\ completions = 0
  /\ view = "chat"
  /\ history = <<>>
  /\ now = 0
  /\ analyzerFiles = <<>>
  /\ analyzer = [state |-> initialState, controller |-> FALSE, request |-> "none",
                 estimateRequest |-> FALSE, callback |-> "none"]
  /\ call = NoCall

(***************************************************************************)
(* Derived values of a render.                                             *)
(***************************************************************************)
hasFullContext(u, e, t, f) ==
  /\ Len(Trim(u)) >= 10
  /\ Len(Trim(e)) >= 5
  /\ Len(Trim(t)) >= 10
  /\ Len(Trim(f)) >= 10

\* a classifier that takes blank text for text
detectModeUntrimmed(text, fs, u, e, t, f, url) ==
  LET hasText == Len(text) > 0
      hasFiles == Len(fs) > 0
      hasContext == /\ Len(Trim(u)) >= 10
                    /\ Len(Trim(e)) >= 5
                    /\ Len(Trim(t)) >= 10
                    /\ Len(Trim(f)) >= 10
      urlType == IF Truthy(url) THEN detectUrlType(url) ELSE "null"
  IN  IF urlType = "figma" THEN "figma"
      ELSE IF urlType = "url" THEN "url"
      ELSE IF ~hasText /\ ~hasFiles THEN "idle"
      ELSE IF hasFiles /\ hasContext THEN "analysis"
      ELSE IF hasFiles /\ hasText /\ ~hasContext THEN "hybrid"
      ELSE IF hasFiles /\ ~hasText /\ ~hasContext THEN "analysis"
      ELSE "chat"

\* a classifier that tests for text with files before it tests the context
detectModeHybridFirst(text, fs, u, e, t, f, url) ==
  LET hasText == Len(Trim(text)) > 0
      hasFiles == Len(fs) > 0
      hasContext == /\ Len(Trim(u)) >= 10
                    /\ Len(Trim(e)) >= 5
                    /\ Len(Trim(t)) >= 10
                    /\ Len(Trim(f)) >= 10
      urlType == IF Truthy(url) THEN detectUrlType(url) ELSE "null"
  IN  IF urlType = "figma" THEN "figma"
      ELSE IF urlType = "url" THEN "url"
      ELSE IF ~hasText /\ ~hasFiles THEN "idle"
      ELSE IF hasFiles /\ hasText THEN "hybrid"
      ELSE IF hasFiles /\ hasContext THEN "analysis"
      ELSE IF hasFiles /\ ~hasText /\ ~hasContext THEN "analysis"
      ELSE "chat"

\* a classifier that has no hybrid mode
detectModeNeverHybrid(text, fs, u, e, t, f, url) ==
  LET hasText == Len(Trim(text)) > 0
      hasFiles == Len(fs) > 0
      hasContext == /\ Len(Trim(u)) >= 10
                    /\ Len(Trim(e)) >= 5
                    /\ Len(Trim(t)) >= 10
                    /\ Len(Trim(f)) >= 10
      urlType == IF Truthy(url) THEN detectUrlType(url) ELSE "null"
  IN  IF urlType = "figma" THEN "figma"
      ELSE IF urlType = "url" THEN "url"
      ELSE IF ~hasText /\ ~hasFiles THEN "idle"
      ELSE IF hasFiles /\ hasContext THEN "analysis"
      ELSE IF hasFiles /\ hasText /\ ~hasContext THEN "analysis"
      ELSE IF hasFiles /\ ~hasText /\ ~hasContext THEN "analysis"
      ELSE "chat"

detectMode(text, fs, u, e, t, f, url) ==
  LET hasText == Len(Trim(text)) > 0
      hasFiles == Len(fs) > 0
      hasContext == /\ Len(Trim(u)) >= 10
                    /\ Len(Trim(e)) >= 5
                    /\ Len(Trim(t)) >= 10
                    /\ Len(Trim(f)) >= 10
      urlType == IF Truthy(url) THEN detectUrlType(url) ELSE "null"
  IN  IF urlType = "figma" THEN "figma"
      ELSE IF urlType = "url" THEN "url"
      ELSE IF ~hasText /\ ~hasFiles THEN "idle"
      ELSE IF hasFiles /\ hasContext THEN "analysis"
      ELSE IF hasFiles /\ hasText /\ ~hasContext THEN "hybrid"
      ELSE IF hasFiles /\ ~hasText /\ ~hasContext THEN "analysis"
      ELSE "chat"

detectedUrl == extractUrl(inputText)

detectedMode == detectMode(inputText, files, users, expertise, tasks, format, detectedUrl)

isLoading == chatLoading \/ isUnifiedLoading

(***************************************************************************)
(* Transcript (useChat) and elapsed-time tracker (useElapsedTime).         *)
(***************************************************************************)
\* content is the text of a user entry and the fixed part of the text of a
\* system entry (the prompt asked, the notice given)
Entry(role, mode, content) ==
  [role |-> role, mode |-> mode, content |-> content, report |-> FALSE]

addUserMessage(msgs, content, mode) == Append(msgs, Entry("user", mode, content))

addSystemPrompt(msgs, content) == Append(msgs, Entry("system", "analysis", content))

\* the cleanup of the isRunning effect: clearInterval on the interval the
\* ref holds
EffectCleanup(iv) ==
  [ref |-> FALSE, live |-> IF iv.ref THEN iv.live - 1 ELSE iv.live]

\* the body of the effect when isRunning: clear the interval the ref holds,
\* then setInterval
EffectBody(iv) ==
  [ref |-> TRUE, live |-> (IF iv.ref THEN iv.live - 1 ELSE iv.live) + 1]

\* elapsed.start()
ElapsedStart ==
  /\ startTimeRef' = TRUE
  /\ elapsedTime' = 0
  /\ isRunning' = TRUE
  /\ interval' = IF isRunning THEN interval ELSE EffectBody(EffectCleanup(interval))

\* a stop whose interval is left running
ElapsedStopKeepsInterval ==
  /\ isRunning' = FALSE
  /\ UNCHANGED <<elapsedTime, startTimeRef, interval>>

\* elapsed.stop()
ElapsedStop ==
  /\ isRunning' = FALSE
  /\ interval' = IF isRunning THEN EffectCleanup(interval) ELSE interval
  /\ UNCHANGED <<elapsedTime, startTimeRef>>

\* a reset that stops the tracker and keeps the time it has counted
ElapsedResetKeepsTime ==
  /\ isRunning' = FALSE
  /\ startTimeRef' = FALSE
  /\ interval' = EffectCleanup(interval)
  /\ UNCHANGED elapsedTime

\* elapsed.reset()
ElapsedReset ==
  /\ isRunning' = FALSE
  /\ elapsedTime' = 0
  /\ startTimeRef' = FALSE
  /\ interval' = EffectCleanup(interval)

\* the callback of a live interval
Tick ==
  /\ interval.live > 0
  /\ startTimeRef
  /\ elapsedTime < MaxElapsed
  /\ elapsedTime' = elapsedTime + 1
  /\ UNCHANGED <<token, clientVars, inputVars, contextVars, gatherVars, pipelineVars,
                 isRunning, startTimeRef, interval, chatVars, netVars>>

\* every step keeps the transcript within its bound
Bounded == Len(messages') <= MaxMessages

(***************************************************************************)
(* State setters the hook returns to the form.  The form disables its text *)
(* box and its file picker while isLoading.                                *)
(***************************************************************************)
\* the credential the App hands to the hook appears or disappears
SetToken ==
  \E t \in {"", "jwt"} :
    /\ token' = t
    /\ UNCHANGED <<clientVars, inputVars, contextVars, gatherVars, pipelineVars,
                   elapsedVars, chatVars, netVars>>

SetInputText ==
  \E t \in (IF contextGatheringPhase = "idle" THEN RequestPool ELSE AnswerPool) :
    /\ ~isLoading
    /\ inputText' = t
    /\ UNCHANGED <<token, clientVars, files, contextVars, gatherVars, pipelineVars,
                   elapsedVars, chatVars, netVars>>

\* setInputText with a short reply to a context prompt
SetInputTextShort ==
  \E t \in ShortAnswerPool :
    /\ ~isLoading
    /\ contextGatheringPhase # "idle"
    /\ inputText' = t
    /\ UNCHANGED <<token, clientVars, files, contextVars, gatherVars, pipelineVars,
                   elapsedVars, chatVars, netVars>>

\* setInputText with any text of the classifier pool
SetInputTextAny ==
  \E t \in ClassifyPool :
    /\ ~isLoading
    /\ inputText' = t
    /\ UNCHANGED <<token, clientVars, files, contextVars, gatherVars, pipelineVars,
                   elapsedVars, chatVars, netVars>>

\* setInputText with a question
SetInputTextChat ==
  \E t \in ChatPool :
    /\ ~isLoading
    /\ inputText' = t
    /\ UNCHANGED <<token, clientVars, files, contextVars, gatherVars, pipelineVars,
                   elapsedVars, chatVars, netVars>>

SetFiles ==
  \E fs \in FilePool :
    /\ ~isLoading
    /\ files' = fs
    /\ UNCHANGED <<token, clientVars, inputText, contextVars, gatherVars, pipelineVars,
                   elapsedVars, chatVars, netVars>>

SetUsers ==
  \E v \in ContextPool :
    /\ users' = v
    /\ UNCHANGED <<token, clientVars, inputVars, expertise, tasks, format, contentType,
                   gatherVars, pipelineVars, elapsedVars, chatVars, netVars>>

SetExpertise ==
  \E v \in ContextPool :
    /\ expertise' = v
    /\ UNCHANGED <<token, clientVars, inputVars, users, tasks, format, contentType,
                   gatherVars, pipelineVars, elapsedVars, chatVars, netVars>>

SetTasks ==
  \E v \in ContextPool :
    /\ tasks' = v
    /\ UNCHANGED <<token, clientVars, inputVars, users, expertise, format, contentType,
                   gatherVars, pipelineVars, elapsedVars, chatVars, netVars>>

SetFormat ==
  \E v \in ContextPool :
    /\ format' = v
    /\ UNCHANGED <<token, clientVars, inputVars, users, expertise, tasks, contentType,
                   gatherVars, pipelineVars, elapsedVars, chatVars, netVars>>

SetContentType ==
  \E v \in ContentTypePool :
    /\ contentType' = v
    /\ UNCHANGED <<token, clientVars, inputVars, users, expertise, tasks, format,
                   gatherVars, pipelineVars, elapsedVars, chatVars, netVars>>

(***************************************************************************)
(* Network calls.                                                          *)
(***************************************************************************)
\* a call issued now; its target is the url, or the files when url is Null.
\* aborted: the AbortSignal handed to the call has fired.
\* cancelled: cancelAnalysis ran while the call was in flight (history).
FreeId == Min({i \in 1..MaxRequests : \A r \in inflight : r.id # i})

Request(api, kind, url, fs) ==
  [id |-> FreeId, api |-> api, kind |-> kind, url |-> url,
   files |-> IF Truthy(url) THEN <<>> ELSE fs,
   aborted |-> FALSE, cancelled |-> FALSE]

Issue(req) ==
  /\ issued < MaxRequests
  /\ inflight' = inflight \cup {req}
  /\ issued' = issued + 1

\* startEstimation up to its await
EstimateApi(urlToAnalyze) ==
  IF Truthy(urlToAnalyze)
  THEN IF detectUrlType(urlToAnalyze) = "figma" THEN "getFigmaEstimate"
       ELSE "getUrlEstimate"
  ELSE "getEstimate"

startEstimation(urlToAnalyze) ==
  /\ analysisPhase' = "estimating"
  /\ isUnifiedLoading' = TRUE
  /\ Issue(Request(EstimateApi(urlToAnalyze), "estimate", urlToAnalyze, files))

(***************************************************************************)
(* useChat.sendMessage up to its await.                                    *)
(***************************************************************************)
sendMessage(message) ==
  IF Trim(message) = "" \/ token = ""
  THEN UNCHANGED <<chatVars, netVars>>
  ELSE /\ messages' = Append(messages, Entry("user", "chat", message))
       /\ chatLoading' = TRUE
       /\ chatError' = Null
       \* abortRef.current?.abort() reaches the call of the previous send
       /\ issued < MaxRequests
       /\ issued' = issued + 1
       /\ inflight' = {IF r.kind = "chat" THEN [r EXCEPT !.aborted = TRUE] ELSE r :
                          r \in inflight}
                       \cup {Request("sendChatMessage", "chat", Null, <<>>)}
       /\ completions' = completions

(***************************************************************************)
(* submit.                                                                 *)
(***************************************************************************)
\* content type guessed from the format answer
AutoContentType(answer, current) ==
  LET lowerAnswer == ToLowerCase(answer)
  IN  IF Includes(lowerAnswer, "mobile") \/ Includes(lowerAnswer, "ios")
         \/ Includes(lowerAnswer, "android") THEN "mobile_app"
      ELSE IF Includes(lowerAnswer, "desktop") \/ Includes(lowerAnswer, "windows")
         \/ Includes(lowerAnswer, "mac") THEN "desktop_app"
      ELSE IF Includes(lowerAnswer, "game") THEN "game"
      ELSE IF Includes(lowerAnswer, "web") \/ Includes(lowerAnswer, "site") THEN "website"
      ELSE current

\* one minimum of 5 characters for every prompt
MinLengthAllFive(phase) == 5

\* minimum length of the answer to the prompt of a gathering phase
MinLength(phase) == IF phase = "asking_expertise" THEN 5 ELSE 10

\* the reply is too short: re-prompt in place
Reprompt(msgs, prompt) ==
  /\ messages' = addSystemPrompt(msgs, prompt)
  /\ UNCHANGED <<contextVars, gatherVars, pipelineVars, chatLoading, chatError,
                 netVars>>

\* an answer handler that asks for the users again after the tasks
SubmitAnswerTasksBackToUsers ==
  LET answer == Trim(inputText)
      msgs == addUserMessage(messages, answer, "analysis")
      short == Len(Trim(answer)) < MinLength(contextGatheringPhase)
  IN  IF answer = "" THEN UNCHANGED vars
      ELSE
        /\ inputText' = ""
        /\ UNCHANGED <<token, clientVars, files, elapsedVars>>
        /\ CASE contextGatheringPhase = "asking_users" ->
                 IF short THEN Reprompt(msgs, "reprompt_users")
                 ELSE /\ users' = answer
                      /\ contextGatheringPhase' = "asking_expertise"
                      /\ messages' = addSystemPrompt(msgs, "ask_expertise")
                      /\ UNCHANGED <<expertise, tasks, format, contentType,
                                     pendingQuestion, gatheringStartedBy,
                                     pipelineVars, chatLoading,
                                     chatError, netVars>>
             [] contextGatheringPhase = "asking_expertise" ->
                 IF short THEN Reprompt(msgs, "reprompt_expertise")
                 ELSE /\ expertise' = answer
                      /\ contextGatheringPhase' = "asking_tasks"
                      /\ messages' = addSystemPrompt(msgs, "ask_tasks")
                      /\ UNCHANGED <<users, tasks, format, contentType,
                                     pendingQuestion, gatheringStartedBy,
                                     pipelineVars, chatLoading,
                                     chatError, netVars>>
             [] contextGatheringPhase = "asking_tasks" ->
                 IF short THEN Reprompt(msgs, "reprompt_tasks")
                 ELSE /\ tasks' = answer
                      /\ contextGatheringPhase' = "asking_users"
                      /\ messages' = addSystemPrompt(msgs, "ask_format")
                      /\ UNCHANGED <<users, expertise, format, contentType,
                                     pendingQuestion, gatheringStartedBy,
                                     pipelineVars, chatLoading,
                                     chatError, netVars>>
             [] contextGatheringPhase = "asking_format" ->
                 IF short THEN Reprompt(msgs, "reprompt_format")
                 ELSE /\ format' = answer
                      /\ contextGatheringPhase' = "idle"
                      /\ gatheringStartedBy' = "none"
                      /\ contentType' = AutoContentType(answer, contentType)
                      /\ messages' = addSystemPrompt(msgs, "all_set")
                      /\ startEstimation(IF Truthy(pendingUrl) THEN pendingUrl ELSE Null)
                      /\ UNCHANGED <<users, expertise, tasks, pendingQuestion,
                                     estimate, pendingUrl, chatLoading, chatError,
                                     completions>>
             [] OTHER ->
                 /\ messages' = msgs
                 /\ UNCHANGED <<contextVars, gatherVars, pipelineVars, chatLoading,
                                chatError, netVars>>

\* submit while contextGatheringPhase is not idle
SubmitAnswer ==
  LET answer == Trim(inputText)
      msgs == addUserMessage(messages, answer, "analysis")
      short == Len(Trim(answer)) < MinLength(contextGatheringPhase)
  IN  IF answer = "" THEN UNCHANGED vars
      ELSE
        /\ inputText' = ""
        /\ UNCHANGED <<token, clientVars, files, elapsedVars>>
        /\ CASE contextGatheringPhase = "asking_users" ->
                 IF short THEN Reprompt(msgs, "reprompt_users")
                 ELSE /\ users' = answer
                      /\ contextGatheringPhase' = "asking_expertise"
                      /\ messages' = addSystemPrompt(msgs, "ask_expertise")
                      /\ UNCHANGED <<expertise, tasks, format, contentType,
                                     pendingQuestion, gatheringStartedBy,
                                     pipelineVars, chatLoading,
                                     chatError, netVars>>
             [] contextGatheringPhase = "asking_expertise" ->
                 IF short THEN Reprompt(msgs, "reprompt_expertise")
                 ELSE /\ expertise' = answer
                      /\ contextGatheringPhase' = "asking_tasks"
                      /\ messages' = addSystemPrompt(msgs, "ask_tasks")
                      /\ UNCHANGED <<users, tasks, format, contentType,
                                     pendingQuestion, gatheringStartedBy,
                                     pipelineVars, chatLoading,
                                     chatError, netVars>>
             [] contextGatheringPhase = "asking_tasks" ->
                 IF short THEN Reprompt(msgs, "reprompt_tasks")
                 ELSE /\ tasks' = answer
                      /\ contextGatheringPhase' = "asking_format"
                      /\ messages' = addSystemPrompt(msgs, "ask_format")
                      /\ UNCHANGED <<users, expertise, format, contentType,
                                     pendingQuestion, gatheringStartedBy,
                                     pipelineVars, chatLoading,
                                     chatError, netVars>>
             [] contextGatheringPhase = "asking_format" ->
                 IF short THEN Reprompt(msgs, "reprompt_format")
                 ELSE /\ format' = answer
                      /\ contextGatheringPhase' = "idle"
                      /\ gatheringStartedBy' = "none"
                      /\ contentType' = AutoContentType(answer, contentType)
                      /\ messages' = addSystemPrompt(msgs, "all_set")
                      /\ startEstimation(IF Truthy(pendingUrl) THEN pendingUrl ELSE Null)
                      /\ UNCHANGED <<users, expertise, tasks, pendingQuestion,
                                     estimate, pendingUrl, chatLoading, chatError,
                                     completions>>
             [] OTHER ->
                 /\ messages' = msgs
                 /\ UNCHANGED <<contextVars, gatherVars, pipelineVars, chatLoading,
                                chatError, netVars>>

\* submit in chat mode
SubmitChat ==
  /\ inputText' = ""
  /\ sendMessage(Trim(inputText))
  /\ UNCHANGED <<token, clientVars, files, contextVars, gatherVars, pipelineVars, elapsedVars>>

\* submit in figma or url mode
SubmitUrl(url, mode) ==
  LET kindText == IF mode = "figma" THEN "Figma design" ELSE "website"
      msgs == addUserMessage(messages, "Analyze this " \o kindText \o ": " \o url,
                             "analysis")
  IN  /\ inputText' = ""
      /\ pendingUrl' = url
      /\ UNCHANGED <<token, clientVars, files, contextVars, pendingQuestion, elapsedVars,
                     estimate, chatLoading, chatError, completions>>
      /\ IF hasFullContext(users, expertise, tasks, format)
         THEN /\ messages' = addSystemPrompt(msgs, "starting_analysis")
              /\ startEstimation(url)
              /\ UNCHANGED <<contextGatheringPhase, gatheringStartedBy>>
         ELSE /\ contextGatheringPhase' = "asking_users"
              /\ gatheringStartedBy' = "url"
              /\ messages' = addSystemPrompt(msgs, "ask_users")
              /\ UNCHANGED <<analysisPhase, isUnifiedLoading, inflight, issued>>

\* file names joined by ", "
RECURSIVE JoinNames(_)
JoinNames(fs) ==
  IF Len(fs) = 0 THEN ""
  ELSE IF Len(fs) = 1 THEN fs[1]
  ELSE fs[1] \o ", " \o JoinNames(Tail(fs))

\* submit in analysis or hybrid mode: files are attached
SubmitFiles ==
  LET fileNames == JoinNames(files)
      userText == Trim(inputText)
      userContent == IF userText # ""
                     THEN userText \o "\n\n*Attached: " \o fileNames \o "*"
                     ELSE "*Attached for analysis: " \o fileNames \o "*"
      msgs == addUserMessage(messages, userContent, "analysis")
  IN  /\ pendingQuestion' = userText
      /\ inputText' = ""
      /\ UNCHANGED <<token, clientVars, files, contextVars, elapsedVars, estimate, pendingUrl,
                     chatLoading, chatError, completions>>
      /\ IF hasFullContext(users, expertise, tasks, format)
         THEN /\ messages' = msgs
              /\ startEstimation(Null)
              /\ UNCHANGED <<contextGatheringPhase, gatheringStartedBy>>
         ELSE /\ contextGatheringPhase' = "asking_users"
              /\ gatheringStartedBy' = "files"
              /\ messages' = addSystemPrompt(msgs, "ask_users")
              /\ UNCHANGED <<analysisPhase, isUnifiedLoading, inflight, issued>>

\* a submit that does not look at the credential
SubmitIgnoresToken ==
  LET url == detectedUrl
      mode == detectMode(inputText, files, users, expertise, tasks, format, url)
  IN  /\ IF contextGatheringPhase # "idle" THEN SubmitAnswer
         ELSE IF mode = "idle" THEN UNCHANGED vars
         ELSE IF mode = "chat" THEN SubmitChat
         ELSE IF mode \in {"figma", "url"} THEN SubmitUrl(url, mode)
         ELSE SubmitFiles
      /\ Bounded

\* a submit that classifies the input before it looks at the gathering phase
SubmitClassifiesFirst ==
  LET url == detectedUrl
      mode == detectMode(inputText, files, users, expertise, tasks, format, url)
  IN  /\ IF token = "" THEN UNCHANGED vars
         ELSE IF mode = "chat" THEN SubmitChat
         ELSE IF contextGatheringPhase # "idle" THEN SubmitAnswer
         ELSE IF mode = "idle" THEN UNCHANGED vars
         ELSE IF mode \in {"figma", "url"} THEN SubmitUrl(url, mode)
         ELSE SubmitFiles
      /\ Bounded

Submit ==
  LET url == detectedUrl
      mode == detectMode(inputText, files, users, expertise, tasks, format, url)
  IN  /\ IF token = "" THEN UNCHANGED vars
         ELSE IF contextGatheringPhase # "idle" THEN SubmitAnswer
         ELSE IF mode = "idle" THEN UNCHANGED vars
         ELSE IF mode = "chat" THEN SubmitChat
         ELSE IF mode \in {"figma", "url"} THEN SubmitUrl(url, mode)
         ELSE SubmitFiles
      /\ Bounded

(***************************************************************************)
(* Outcomes of the request functions of the API client.                    *)
(***************************************************************************)
\* message of the Error a request function throws
ErrorMessage(api, kind) ==
  IF kind = "timeout"
  THEN CASE api = "getEstimate" -> "Estimation timed out"
         [] api = "getFigmaEstimate" -> "Figma estimation timed out"
         [] api = "getUrlEstimate" -> "URL estimation timed out"
         [] api = "analyzeFigma" -> "Figma analysis timed out. Please try again."
         [] api = "analyzeUrl" -> "URL analysis timed out. Please try again."
         [] api = "analyzeImage" -> "Analysis timed out. Please try again."
         [] OTHER -> "Request timed out. Please try again."
  ELSE CASE api = "getEstimate" -> "HTTP 500: Estimation failed"
         [] api = "getFigmaEstimate" -> "HTTP 500: Figma estimation failed"
         [] api = "getUrlEstimate" -> "HTTP 500: URL estimation failed"
         [] api = "analyzeFigma" -> "HTTP 500: Figma analysis failed"
         [] api = "analyzeUrl" -> "HTTP 500: URL analysis failed"
         [] api = "analyzeImage" -> "HTTP 500: Analysis failed"
         [] OTHER -> "HTTP 500"

\* the estimate the backend returns for a request
ServerEstimate(req) ==
  CASE req.api = "getFigmaEstimate" ->
         [type |-> "figma", fallback |-> FALSE, frame_count |-> 3,
          min_seconds |-> 60, max_seconds |-> 180]
    [] req.api = "getUrlEstimate" ->
         [type |-> "url", fallback |-> FALSE, url |-> req.url, estimated_pages |-> 3,
          min_seconds |-> 100, max_seconds |-> 200]
    [] OTHER ->
         [type |-> "file", fallback |-> FALSE, file_count |-> Len(req.files),
          input_type |-> IF Len(req.files) > 1 THEN "multi_image" ELSE "single_image",
          min_seconds |-> 20, max_seconds |-> 60]

\* a fallback that is file-shaped whatever the target is
FallbackEstimateFileOnly(urlToAnalyze, fs) ==
  [type |-> "file", fallback |-> TRUE, file_count |-> Len(fs),
   input_type |-> IF Len(fs) > 1 THEN "multi_image" ELSE "single_image",
   min_seconds |-> 30, max_seconds |-> 120]

\* the estimate startEstimation makes up when the request failed
FallbackEstimate(urlToAnalyze, fs) ==
  IF Truthy(urlToAnalyze)
  THEN IF detectUrlType(urlToAnalyze) = "figma"
       THEN [type |-> "figma", fallback |-> TRUE, frame_count |-> 5,
             min_seconds |-> 120, max_seconds |-> 300]
       ELSE [type |-> "url", fallback |-> TRUE, url |-> urlToAnalyze,
             estimated_pages |-> 5, min_seconds |-> 200, max_seconds |-> 400]
  ELSE [type |-> "file", fallback |-> TRUE, file_count |-> Len(fs),
        input_type |-> IF Len(fs) > 1 THEN "multi_image" ELSE "single_image",
        min_seconds |-> 30, max_seconds |-> 120]

(***************************************************************************)
(* startEstimation after its await.                                        *)
(***************************************************************************)
EstimateResolves ==
  \E req \in inflight :
    /\ req.kind = "estimate"
    /\ pendingUrl' = IF Truthy(req.url) THEN req.url ELSE pendingUrl
    /\ estimate' = ServerEstimate(req)
    /\ analysisPhase' = "previewing"
    /\ isUnifiedLoading' = FALSE
    /\ inflight' = inflight \ {req}
    /\ UNCHANGED <<issued, token, clientVars, inputVars, contextVars, gatherVars, elapsedVars, chatVars, completions>>

EstimateRejects ==
  \E req \in inflight, kind \in ErrorKinds :
    /\ req.kind = "estimate"
    /\ messages' = addSystemPrompt(messages,
                      "Could not get estimate")
    /\ pendingUrl' = IF Truthy(req.url) THEN req.url ELSE pendingUrl
    /\ estimate' = FallbackEstimate(req.url, req.files)
    /\ analysisPhase' = "previewing"
    /\ isUnifiedLoading' = FALSE
    /\ inflight' = inflight \ {req}
    /\ UNCHANGED <<issued, token, clientVars, inputVars, contextVars, gatherVars, elapsedVars,
                   chatLoading, chatError, completions>>
    /\ Bounded

(***************************************************************************)
(* runAnalysis, confirmAnalysis, cancelAnalysis.                           *)
(***************************************************************************)
AnalysisApi(url) ==
  IF Truthy(url)
  THEN IF detectUrlType(url) = "figma" THEN "analyzeFigma" ELSE "analyzeUrl"
  ELSE "unifiedAsk"

\* runAnalysis up to its await
runAnalysis ==
  /\ analysisPhase' = "analyzing"
  /\ ElapsedStart
  /\ isUnifiedLoading' = TRUE
  /\ Issue(Request(AnalysisApi(pendingUrl), "analysis", pendingUrl, files))

ConfirmAnalysis ==
  /\ runAnalysis
  /\ UNCHANGED <<token, clientVars, inputVars, contextVars, gatherVars, estimate, pendingUrl,
                 chatVars, completions>>
  /\ Bounded

CancelAnalysis ==
  /\ ElapsedReset
  /\ analysisPhase' = "idle"
  /\ estimate' = NullEstimate
  /\ isUnifiedLoading' = FALSE
  /\ inflight' = {IF r.kind = "chat" THEN r ELSE [r EXCEPT !.cancelled = TRUE] :
                     r \in inflight}
  /\ UNCHANGED <<issued, token, clientVars, inputVars, contextVars, gatherVars, pendingUrl, chatVars, completions>>

\* runAnalysis after its await: the request returned a result
AnalysisResolves ==
  \E req \in inflight, mode \in ResultModes :
    /\ req.kind = "analysis"
    \* analyzeFigma and analyzeUrl return only results with success set
    /\ req.api # "unifiedAsk" => mode = "analysis"
    /\ ElapsedStop
    /\ completions' = IF mode \in {"analysis", "hybrid"}
                      THEN (completions + 1) % CompletionsModulus
                      ELSE completions
    /\ messages' = addSystemPrompt(messages, "analysis_completed")
    /\ inputText' = ""
    /\ files' = <<>>
    /\ pendingQuestion' = ""
    /\ pendingUrl' = Null
    /\ analysisPhase' = "idle"
    /\ estimate' = NullEstimate
    /\ isUnifiedLoading' = FALSE
    /\ inflight' = inflight \ {req}
    /\ UNCHANGED <<issued, token, clientVars, contextVars, contextGatheringPhase,
                   gatheringStartedBy, chatLoading, chatError>>
    /\ Bounded

\* a failure handler that leaves the estimate of the failed run in place
AnalysisRejectsKeepsEstimate ==
  \E req \in inflight, kind \in ErrorKinds :
    /\ req.kind = "analysis"
    /\ ElapsedStop
    /\ messages' = addSystemPrompt(messages,
                      "Analysis failed")
    /\ analysisPhase' = "idle"
    /\ pendingUrl' = Null
    /\ isUnifiedLoading' = FALSE
    /\ inflight' = inflight \ {req}
    /\ UNCHANGED <<issued, token, clientVars, inputVars, contextVars, gatherVars, estimate,
                   chatLoading, chatError, completions>>
    /\ Bounded

\* runAnalysis after its await: the request threw
AnalysisRejects ==
  \E req \in inflight, kind \in ErrorKinds :
    /\ req.kind = "analysis"
    /\ ElapsedStop
    /\ messages' = addSystemPrompt(messages,
                      "Analysis failed")
    /\ analysisPhase' = "idle"
    /\ estimate' = NullEstimate
    /\ pendingUrl' = Null
    /\ isUnifiedLoading' = FALSE
    /\ inflight' = inflight \ {req}
    /\ UNCHANGED <<issued, token, clientVars, inputVars, contextVars, gatherVars, chatLoading, chatError, completions>>
    /\ Bounded

(***************************************************************************)
(* useChat: sendMessage after its await, clearHistory.                     *)
(***************************************************************************)
\* a success handler that overwrites the last entry with the reply
ChatResolvesOverwrites ==
  \E req \in inflight :
    /\ req.kind = "chat"
    /\ ~req.aborted
    /\ messages' = IF messages = <<>>
                   THEN <<Entry("assistant", "chat", "reply")>>
                   ELSE [messages EXCEPT ![Len(messages)] =
                           Entry("assistant", "chat", "reply")]
    /\ chatLoading' = FALSE
    /\ inflight' = inflight \ {req}
    /\ UNCHANGED <<issued, token, clientVars, inputVars, contextVars, gatherVars,
                   pipelineVars, elapsedVars, chatError, completions>>
    /\ Bounded

ChatResolves ==
  \E req \in inflight :
    /\ req.kind = "chat"
    /\ ~req.aborted
    /\ messages' = Append(messages, Entry("assistant", "chat", "reply"))
    /\ chatLoading' = FALSE
    /\ inflight' = inflight \ {req}
    /\ UNCHANGED <<issued, token, clientVars, inputVars, contextVars, gatherVars, pipelineVars,
                   elapsedVars, chatError, completions>>
    /\ Bounded

\* a failure handler that records the error and writes nothing to the transcript
ChatRejectsSilent ==
  \E req \in inflight, kind \in ErrorKinds :
    /\ req.kind = "chat"
    /\ req.aborted => kind = "timeout"
    /\ chatError' = ErrorMessage(req.api, kind)
    /\ messages' = messages
    /\ chatLoading' = FALSE
    /\ inflight' = inflight \ {req}
    /\ UNCHANGED <<issued, token, clientVars, inputVars, contextVars, gatherVars, pipelineVars,
                   elapsedVars, completions>>
    /\ Bounded

ChatRejects ==
  \E req \in inflight, kind \in ErrorKinds :
    /\ req.kind = "chat"
    /\ req.aborted => kind = "timeout"
    /\ chatError' = ErrorMessage(req.api, kind)
    /\ messages' = Append(messages, Entry("assistant", "chat",
                      "Sorry, I encountered an error: " \o ErrorMessage(req.api, kind)))
    /\ chatLoading' = FALSE
    /\ inflight' = inflight \ {req}
    /\ UNCHANGED <<issued, token, clientVars, inputVars, contextVars, gatherVars, pipelineVars,
                   elapsedVars, completions>>
    /\ Bounded

ClearHistory ==
  /\ messages' = <<>>
  /\ chatError' = Null
  /\ UNCHANGED <<token, clientVars, inputVars, contextVars, gatherVars, pipelineVars,
                 elapsedVars, chatLoading, netVars>>

(***************************************************************************)
(* Specification.                                                          *)
(***************************************************************************)
Next ==
  \/ SetInputText
  \/ SetFiles
  \/ Submit
  \/ ConfirmAnalysis
  \/ CancelAnalysis
  \/ EstimateResolves
  \/ EstimateRejects
  \/ AnalysisResolves
  \/ AnalysisRejects
  \/ ClearHistory
  \/ Tick

Spec == Init /\ [][Next]_vars

\* the conversation that gathers the context, up to the estimate preview
NextGather ==
  \/ SetInputText
  \/ SetInputTextShort
  \/ SetFiles
  \/ Submit
  \/ EstimateResolves
  \/ EstimateRejects
  \/ ClearHistory

SpecGather == Init /\ [][NextGather]_vars

\* the users and the format edited in the context panel, next to
\* submissions and estimates
NextContext ==
  \/ SetInputText
  \/ SetFiles
  \/ SetUsers
  \/ SetFormat
  \/ Submit
  \/ EstimateResolves
  \/ EstimateRejects
  \/ ClearHistory

SpecContext == Init /\ [][NextContext]_vars

\* the inputs of the mode classifier set in every combination
NextClassify ==
  \/ SetInputTextAny
  \/ SetFiles
  \/ SetUsers
  \/ SetExpertise
  \/ SetTasks
  \/ SetFormat

SpecClassify == Init /\ [][NextClassify]_vars

\* questions typed and sent to the chat
NextChat ==
  \/ SetInputTextChat
  \/ Submit
  \/ ChatResolves
  \/ ChatRejects
  \/ ClearHistory

SpecChat == Init /\ [][NextChat]_vars

\* the pipeline with a credential that comes and goes
NextToken ==
  \/ SetToken
  \/ SetInputText
  \/ SetFiles
  \/ Submit
  \/ ConfirmAnalysis
  \/ EstimateResolves
  \/ EstimateRejects
  \/ AnalysisRejects
  \/ ClearHistory

SpecToken == Init /\ [][NextToken]_vars

(***************************************************************************)
(* Timeouts of the requests of the hooks.  The hooks pass no timeout, so   *)
(* each request function applies its default.                              *)
(***************************************************************************)
RequestTimeout(req) ==
  CASE req.api = "unifiedAsk" -> 120000
    [] req.api = "analyzeFigma" -> 1800000
    [] req.api = "analyzeUrl" -> 600000
    [] req.api = "sendChatMessage" -> 60000
    [] OTHER -> 30000

\* two screenshots are attached at once
SetFilesSeveral ==
  /\ ~isLoading
  /\ files' = <<"a.png", "b.jpg">>
  /\ UNCHANGED <<token, clientVars, inputText, contextVars, gatherVars, pipelineVars,
                 elapsedVars, chatVars, netVars>>

\* the pipeline with one or several files attached
NextTimeout ==
  \/ SetInputText
  \/ SetFiles
  \/ SetFilesSeveral
  \/ Submit
  \/ ConfirmAnalysis
  \/ EstimateResolves
  \/ EstimateRejects
  \/ AnalysisResolves
  \/ AnalysisRejects
  \/ ClearHistory

SpecTimeout == Init /\ [][NextTimeout]_vars

(***************************************************************************)
(* File selection: the drop zone and picker of UnifiedInput feed the files *)
(* of the hook, FileUpload feeds the files of useAnalyzer.                 *)
(***************************************************************************)
MaxDrop == 2

\* File.type of the files that can be picked, by name
FileType(f) ==
  CASE f = "a.png" -> "image/png"
    [] f = "b.jpg" -> "image/jpeg"
    [] f = "big.png" -> "image/png"
    [] f = "v.mp4" -> "video/mp4"
    [] OTHER -> "application/pdf"

IMAGE_TYPES == {"image/png", "image/jpeg", "image/jpg"}
VIDEO_TYPES == {"video/mp4", "video/quicktime", "video/webm"}

\* the lists of at most n of the given files
Picks(names, n) == UNION {[1..k -> names] : k \in 0..n}

\* a drop handler that keeps everything that was dropped
HandleDropUncapped ==
  \E dropped \in Picks({"a.png", "b.jpg", "v.mp4", "d.pdf"}, MaxDrop) :
    LET accepted == SelectSeq(dropped, LAMBDA f : FileType(f) \in IMAGE_TYPES)
    IN  /\ ~isLoading
        /\ files' = IF Len(accepted) > 0 THEN files \o accepted ELSE files
        /\ UNCHANGED <<token, view, history, now, analyzerFiles, analyzer, call, inputText,
                       contextVars, gatherVars, pipelineVars, elapsedVars,
                       chatVars, netVars>>

\* UnifiedInput handleDrop; handleFileSelect has the same body
HandleDrop ==
  \E dropped \in Picks({"a.png", "b.jpg", "v.mp4", "d.pdf"}, MaxDrop) :
    LET accepted == SelectSeq(dropped, LAMBDA f : FileType(f) \in IMAGE_TYPES)
        all == files \o accepted
    IN  /\ ~isLoading
        /\ files' = IF Len(accepted) > 0
                    THEN SubSeq(all, 1, IF Len(all) < 10 THEN Len(all) ELSE 10)
                    ELSE files
        /\ UNCHANGED <<token, view, history, now, analyzerFiles, analyzer, call, inputText,
                       contextVars, gatherVars, pipelineVars, elapsedVars,
                       chatVars, netVars>>

\* UnifiedInput removeFile
RemoveFile ==
  \E index \in 1..Len(files) :
    /\ files' = SubSeq(files, 1, index - 1) \o SubSeq(files, index + 1, Len(files))
    /\ UNCHANGED <<token, view, history, now, analyzerFiles, analyzer, call, inputText,
                   contextVars, gatherVars, pipelineVars, elapsedVars,
                   chatVars, netVars>>

\* FileUpload validateFiles: the error it returns, Null for none
validateFiles(fileList) ==
  LET isVideo(f) == FileType(f) \in VIDEO_TYPES
      isImage(f) == FileType(f) \in IMAGE_TYPES
      hasVideos == \E i \in 1..Len(fileList) : isVideo(fileList[i])
      hasImages == \E i \in 1..Len(fileList) : isImage(fileList[i])
  IN  IF Len(fileList) = 0 THEN "Please select at least one file"
      ELSE IF Len(fileList) > 10 THEN "Maximum 10 files allowed"
      ELSE IF hasVideos /\ hasImages THEN "Cannot mix images and videos"
      ELSE IF hasVideos /\ Len(fileList) > 1 THEN "Only one video file allowed"
      ELSE IF \E i \in 1..Len(fileList) :
                FileType(fileList[i]) \notin IMAGE_TYPES \cup VIDEO_TYPES
           THEN "Unsupported file type"
      ELSE IF \E i \in 1..Len(fileList) : fileList[i] = "big.png"
           THEN "too large"
      ELSE Null

\* FileUpload handleFiles, from its drop zone or its picker
HandleFiles ==
  \E newFiles \in Picks({"a.png", "big.png", "v.mp4", "d.pdf"}, MaxDrop)
                    \cup {[i \in 1..11 |-> "a.png"]} :
    /\ analyzerFiles' = IF validateFiles(newFiles) = Null THEN newFiles ELSE <<>>
    /\ UNCHANGED <<token, view, history, now, analyzer, call, inputVars, contextVars,
                   gatherVars, pipelineVars, elapsedVars, chatVars, netVars>>

\* FileUpload handleRemove: one file, or all of them (index 0)
HandleRemove ==
  \E index \in 0..Len(analyzerFiles) :
    /\ analyzerFiles' =
         IF index = 0 THEN <<>>
         ELSE SubSeq(analyzerFiles, 1, index - 1)
                \o SubSeq(analyzerFiles, index + 1, Len(analyzerFiles))
    /\ UNCHANGED <<token, view, history, now, analyzer, call, inputVars, contextVars,
                   gatherVars, pipelineVars, elapsedVars, chatVars, netVars>>

NextFiles ==
  \/ HandleDrop
  \/ RemoveFile
  \/ HandleFiles
  \/ HandleRemove

SpecFiles == Init /\ [][NextFiles]_vars

(***************************************************************************)
(* The history of past analyses in localStorage, written by the App when   *)
(* the hook reports a completed analysis.                                  *)
(***************************************************************************)
MaxNow == 3
MAX_ENTRIES == 10

\* Date.now() advances
ClockTick ==
  /\ now < MaxNow
  /\ now' = now + 1
  /\ UNCHANGED <<token, view, history, analyzerFiles, analyzer, call, inputVars, contextVars,
                 gatherVars, pipelineVars, elapsedVars, chatVars, netVars>>

\* Array.prototype.slice(0, n)
Slice(seq, n) == SubSeq(seq, 1, IF Len(seq) < n THEN Len(seq) ELSE n)

\* saveAnalysis: storage tells whether localStorage takes the first write
\* ("ok"), refuses it and takes the shorter second one ("retry"), or refuses
\* both ("full"), in which case the second setItem throws to the caller
saveAnalysis(storage) ==
  LET entry == [id |-> now, timestamp |-> now]
      updated == Slice(<<entry>> \o history, MAX_ENTRIES)
  IN  history' = CASE storage = "ok" -> updated
                   [] storage = "retry" -> Slice(updated, 5)
                   [] OTHER -> history

\* handleAnalysisComplete for a result with or without report_html
handleAnalysisComplete(report, storage) ==
  /\ IF report
     THEN /\ view' = "report"
          /\ saveAnalysis(storage)
     ELSE UNCHANGED <<view, history>>
  /\ UNCHANGED <<token, now, analyzerFiles, analyzer, call, inputVars, contextVars,
                 gatherVars, pipelineVars, elapsedVars, chatVars, netVars>>

HandleAnalysisComplete ==
  \E report \in BOOLEAN, storage \in {"ok", "retry", "full"} :
    handleAnalysisComplete(report, storage)

\* deleteAnalysis(id) for the id of a stored entry
DeleteAnalysis ==
  \E i \in 1..Len(history) :
    /\ history' = SelectSeq(history, LAMBDA a : a.id # history[i].id)
    /\ UNCHANGED <<token, view, now, analyzerFiles, analyzer, call, inputVars, contextVars,
                   gatherVars, pipelineVars, elapsedVars, chatVars, netVars>>

\* the Back button of the report view
BackToChat ==
  /\ view # "chat"
  /\ view' = "chat"
  /\ UNCHANGED <<token, history, now, analyzerFiles, analyzer, call, inputVars, contextVars,
                 gatherVars, pipelineVars, elapsedVars, chatVars, netVars>>

NextHistory ==
  \/ ClockTick
  \/ HandleAnalysisComplete
  \/ DeleteAnalysis
  \/ BackToChat

SpecHistory == Init /\ [][NextHistory]_vars

(***************************************************************************)
(* One invocation of a request function of the API client: the function    *)
(* arms a timer on its own controller, combines that controller with the   *)
(* signal of the caller, awaits fetch, clears the timer, awaits the body.  *)
(* call.cause records what ended a call that threw; the code does not.     *)
(***************************************************************************)
Settled(c) == c.state \in {"returned", "threw"}

\* the catch block: clearTimeout, then the Error thrown to the caller
Throws(c, cause, error) ==
  [c EXCEPT !.state = "threw", !.timer = "cleared", !.cause = cause,
            !.error = error, !.settled = c.settled + 1]

\* a request function is called; with a signal that is aborted already
\* fetch rejects at once with an AbortError
Invoke ==
  \E fn \in {"analyzeImage", "getEstimate", "sendChatMessage", "unifiedAsk",
              "getFigmaEstimate", "getUrlEstimate", "analyzeFigma", "analyzeUrl"},
     sig \in {"none", "live", "aborted"} :
    LET c == [fn |-> fn, state |-> "fetching", timer |-> "armed", signal |-> sig,
              server |-> IF sig = "aborted" THEN "none" ELSE "pending",
              cause |-> "none", error |-> Null, settled |-> 0]
    IN  /\ call.state \in {"none", "returned", "threw"}
        /\ fn \in {"getEstimate", "getFigmaEstimate", "getUrlEstimate"} => sig = "none"
        /\ call' = IF sig = "aborted"
                   THEN Throws(c, "user", ErrorMessage(fn, "timeout"))
                   ELSE c
        /\ UNCHANGED <<token, view, history, now, analyzerFiles, analyzer, inputVars,
                       contextVars, gatherVars, pipelineVars, elapsedVars,
                       chatVars, netVars>>

\* the timer callback runs: controller.abort(); a pending fetch or body read
\* rejects with an AbortError
TimerFires ==
  /\ call.timer = "armed"
  /\ call' = IF Settled(call)
             THEN [call EXCEPT !.timer = "fired"]
             ELSE Throws(call, "timeout", ErrorMessage(call.fn, "timeout"))
  /\ UNCHANGED <<token, view, history, now, analyzerFiles, analyzer, inputVars,
                 contextVars, gatherVars, pipelineVars, elapsedVars,
                 chatVars, netVars>>

\* the caller aborts its signal: anySignal aborts the combined signal
ExternalAbort ==
  /\ call.signal = "live"
  /\ call' = IF Settled(call)
             THEN [call EXCEPT !.signal = "aborted"]
             ELSE [Throws(call, "user", ErrorMessage(call.fn, "timeout"))
                     EXCEPT !.signal = "aborted"]
  /\ UNCHANGED <<token, view, history, now, analyzerFiles, analyzer, inputVars,
                 contextVars, gatherVars, pipelineVars, elapsedVars,
                 chatVars, netVars>>

\* a continuation of fetch that leaves the timer armed
ResponseArrivesKeepsTimer ==
  /\ call.server = "pending"
  /\ call' = IF call.state = "fetching"
             THEN [call EXCEPT !.server = "responded", !.state = "reading"]
             ELSE [call EXCEPT !.server = "responded"]
  /\ UNCHANGED <<token, view, history, now, analyzerFiles, analyzer, inputVars,
                 contextVars, gatherVars, pipelineVars, elapsedVars,
                 chatVars, netVars>>

\* the response of the server arrives: a pending fetch resolves and the
\* function clears its timer; a call that has settled takes no notice
ResponseArrives ==
  /\ call.server = "pending"
  /\ call' = IF call.state = "fetching"
             THEN [call EXCEPT !.server = "responded", !.state = "reading",
                               !.timer = "cleared"]
             ELSE [call EXCEPT !.server = "responded"]
  /\ UNCHANGED <<token, view, history, now, analyzerFiles, analyzer, inputVars,
                 contextVars, gatherVars, pipelineVars, elapsedVars,
                 chatVars, netVars>>

\* response.json() settles: the payload, the body of an HTTP error status,
\* a body with success unset and an error text, or a body that is no JSON
BodyRead ==
  \E body \in {"payload", "http", "failure", "garbled"} :
    /\ call.state = "reading"
    /\ call' =
         CASE body = "http" ->
                Throws(call, "application", ErrorMessage(call.fn, "http"))
           [] body = "failure"
                /\ call.fn \in {"analyzeImage", "analyzeFigma", "analyzeUrl"} ->
                Throws(call, "application", "error of the body")
           [] body = "garbled" ->
                Throws(call, "transport", "Unexpected end of JSON input")
           [] OTHER ->
                [call EXCEPT !.state = "returned", !.settled = call.settled + 1]
    /\ UNCHANGED <<token, view, history, now, analyzerFiles, analyzer, inputVars,
                   contextVars, gatherVars, pipelineVars, elapsedVars,
                   chatVars, netVars>>

\* a catch block that leaves the timer as it is
FetchFailsKeepsTimer ==
  /\ call.state = "fetching"
  /\ call.server = "pending"
  /\ call' = [call EXCEPT !.state = "threw", !.cause = "transport",
                          !.error = "Failed to fetch", !.server = "none",
                          !.settled = call.settled + 1]
  /\ UNCHANGED <<token, view, history, now, analyzerFiles, analyzer, inputVars,
                 contextVars, gatherVars, pipelineVars, elapsedVars,
                 chatVars, netVars>>

\* the network fails: fetch rejects with a TypeError
FetchFails ==
  /\ call.state = "fetching"
  /\ call.server = "pending"
  /\ call' = [Throws(call, "transport", "Failed to fetch") EXCEPT !.server = "none"]
  /\ UNCHANGED <<token, view, history, now, analyzerFiles, analyzer, inputVars,
                 contextVars, gatherVars, pipelineVars, elapsedVars,
                 chatVars, netVars>>

NextExecutor ==
  \/ Invoke
  \/ TimerFires
  \/ ExternalAbort
  \/ ResponseArrives
  \/ BodyRead
  \/ FetchFails

SpecExecutor == Init /\ [][NextExecutor]_vars

(***************************************************************************)
(* useAnalyzer: the upload form with its reducer.  analyzer.request is the *)
(* analysis call in flight ("aborted" once its signal was aborted),        *)
(* analyzer.callback the option callback that was invoked last.            *)
(***************************************************************************)
appVars == <<token, view, history, now, call, inputVars, contextVars, gatherVars,
             pipelineVars, elapsedVars, chatVars, netVars>>

\* analyzerReducer, case RESET
Reset(state) ==
  [initialState EXCEPT !.users = state.users, !.tasks = state.tasks,
                       !.format = state.format,
                       !.contentType = state.contentType]

\* analyzerReducer, case ANALYSIS_ERROR
AnalysisError(state, payload) ==
  [state EXCEPT !.view = "error", !.isSubmitting = FALSE, !.error = payload]

detectInputType(fs) ==
  IF Len(fs) = 0 THEN Null
  ELSE IF \E i \in 1..Len(fs) : FileType(fs[i]) \in VIDEO_TYPES THEN "video"
  ELSE IF Len(fs) = 1 THEN "single_image"
  ELSE "multi_image"

\* setUsers, setExpertise, setTasks, setFormat, setContentType
AnalyzerSetContext ==
  \E f \in {"users", "expertise", "tasks", "format", "contentType"} :
    \E v \in (IF f = "contentType" THEN {"website", "mobile_app"} ELSE ContextPool) :
      /\ analyzer' = [analyzer EXCEPT !.state[f] = v]
      /\ UNCHANGED <<analyzerFiles, appVars>>

\* requestEstimate up to its await
requestEstimate ==
  /\ ~analyzer.estimateRequest
  /\ analyzer' =
       IF Len(analyzerFiles) = 0
       THEN [analyzer EXCEPT !.state.isEstimating = FALSE,
                             !.state.error = "No files selected"]
       ELSE [analyzer EXCEPT !.state.isEstimating = TRUE, !.state.error = Null,
                             !.estimateRequest = TRUE]

\* getEstimate returns or throws
AnalyzerEstimateSettles ==
  \E kind \in {"ok"} \cup ErrorKinds :
    /\ analyzer.estimateRequest
    /\ analyzer' =
         IF kind = "ok"
         THEN [analyzer EXCEPT !.estimateRequest = FALSE,
                               !.state.isEstimating = FALSE,
                               !.state.estimate = FallbackEstimate(Null, analyzerFiles),
                               !.state.view = "preview", !.state.error = Null]
         ELSE [analyzer EXCEPT !.estimateRequest = FALSE,
                               !.state.isEstimating = FALSE,
                               !.state.error = ErrorMessage("getEstimate", kind)]
    /\ UNCHANGED <<analyzerFiles, appVars>>

\* runAnalysis up to its await
runAnalysisOfFiles ==
  /\ analyzer.request = "none"
  /\ analyzer' =
       IF Len(analyzerFiles) = 0
       THEN [analyzer EXCEPT !.state = AnalysisError(@, "No files selected")]
       ELSE [analyzer EXCEPT !.controller = TRUE, !.request = "pending",
                             !.callback = "start",
                             !.state.view = "loading", !.state.isSubmitting = TRUE,
                             !.state.error = Null]

\* confirmAnalysis
AnalyzerConfirmAnalysis ==
  /\ runAnalysisOfFiles
  /\ UNCHANGED <<analyzerFiles, appVars>>

\* submitAnalysis: one image is analysed at once, the rest is estimated
AnalyzerSubmitAnalysis ==
  /\ IF detectInputType(analyzerFiles) = "single_image" THEN runAnalysisOfFiles
     ELSE requestEstimate
  /\ UNCHANGED <<analyzerFiles, appVars>>

\* the analysis call returns a result
AnalyzerAnalysisResolves ==
  /\ analyzer.request = "pending"
  /\ analyzer' = [analyzer EXCEPT !.request = "none", !.controller = FALSE,
                                  !.callback = "complete",
                                  !.state.view = "report",
                                  !.state.isSubmitting = FALSE,
                                  !.state.report = "report", !.state.error = Null]
  /\ UNCHANGED <<analyzerFiles, appVars>>

\* the Error a request function of the client throws: the AbortError of
\* fetch is replaced by a new Error, whose name is 'Error'
ClientError(api, kind) == [name |-> "Error", message |-> ErrorMessage(api, kind)]

\* the catch and finally blocks of runAnalysis
AnalyzerCatch(error) ==
  /\ analyzer' =
       IF error.name = "AbortError"
       THEN [analyzer EXCEPT !.request = "none", !.controller = FALSE,
                             !.state = Reset(@)]
       ELSE [analyzer EXCEPT !.request = "none", !.controller = FALSE,
                             !.callback = "error",
                             !.state = AnalysisError(@, error.message)]
  /\ analyzerFiles' = IF error.name = "AbortError" THEN <<>> ELSE analyzerFiles

\* the analysis call throws: after an abort of its signal, after its own
\* timer, or with the failure the server reported
AnalyzerAnalysisRejects ==
  \E kind \in ErrorKinds :
    /\ analyzer.request \in {"pending", "aborted"}
    /\ analyzer.request = "aborted" => kind = "timeout"
    /\ AnalyzerCatch(ClientError("analyzeImage", kind))
    /\ UNCHANGED appVars

\* cancelAnalysis
AnalyzerCancelAnalysis ==
  /\ analyzer' =
       [analyzer EXCEPT !.controller = FALSE,
                        !.request = IF analyzer.controller /\ @ = "pending"
                                    THEN "aborted" ELSE @,
                        !.state = Reset(@)]
  /\ analyzerFiles' = <<>>
  /\ UNCHANGED appVars

\* reset
AnalyzerReset ==
  /\ analyzer' = [analyzer EXCEPT !.state = Reset(@)]
  /\ analyzerFiles' = <<>>
  /\ UNCHANGED appVars

\* backToForm
AnalyzerBackToForm ==
  /\ analyzer' = [analyzer EXCEPT !.state.view = "form",
                                  !.state.estimate = NullEstimate,
                                  !.state.isEstimating = FALSE,
                                  !.state.isSubmitting = FALSE,
                                  !.state.error = Null]
  /\ UNCHANGED <<analyzerFiles, appVars>>

NextAnalyzer ==
  \/ HandleFiles
  \/ AnalyzerSetContext
  \/ AnalyzerSubmitAnalysis
  \/ AnalyzerConfirmAnalysis
  \/ AnalyzerEstimateSettles
  \/ AnalyzerAnalysisResolves
  \/ AnalyzerAnalysisRejects
  \/ AnalyzerCancelAnalysis
  \/ AnalyzerReset
  \/ AnalyzerBackToForm

SpecAnalyzer == Init /\ [][NextAnalyzer]_vars

(***************************************************************************)
(* Properties.                                                             *)
(***************************************************************************)
\* the promise of req settles in this step
Settles(req) == req \in inflight /\ inflight' = inflight \ {req}

\* the requests issued in this step
NewRequests == {r \in inflight' : \A q \in inflight : q.id # r.id}

PendingRequests == {r \in inflight : r.kind \in {"estimate", "analysis"}}

\* C1: a submit called while the analysis phase is analyzing is a no-op: it
\* issues no request, appends no transcript entry and changes no phase or
\* context field.
C1_SubmitWhileAnalyzingIsNoop ==
  [][(analysisPhase = "analyzing" /\ Submit) => UNCHANGED vars]_vars

\* C2: when the analysis request that was in flight at a cancelAnalysis later
\* returns a result, nothing changes: no transcript entry, no
\* onAnalysisComplete, and input text, files, phase and estimate stay.
C2_CancelledSuccessMutatesNothing ==
  [][\A req \in inflight :
       (req.kind = "analysis" /\ req.cancelled /\ Settles(req) /\ AnalysisResolves)
       => UNCHANGED <<messages, completions, inputText, files, analysisPhase,
                      estimate>>]_vars

\* C3: at most one estimate or analysis request is in flight in every
\* reachable state.
C3_AtMostOnePendingRequest == Cardinality(PendingRequests) <= 1

\* the analysis phase, estimate and elapsed time a cancellation leaves
CancelledValues ==
  /\ analysisPhase = "idle"
  /\ estimate = NullEstimate
  /\ elapsedTime = 0

\* C4: cancelAnalysis called while analyzing leaves analysis phase idle, a
\* null estimate and an elapsed time of 0, and when the cancelled call then
\* settles, with a result or with an error, these three values still hold.
C4_CancelYieldsIdleNullZero ==
  [][/\ (analysisPhase = "analyzing" /\ CancelAnalysis) => CancelledValues'
     /\ \A req \in inflight :
          (/\ req.kind = "analysis"
           /\ req.cancelled
           /\ Settles(req)
           /\ CancelledValues) => CancelledValues']_vars

\* an analysis was of a previewed URL was confirmed and cancelled, and its call has
\* not settled yet
C4_Witness ==
  /\ CancelledValues
  /\ ~isRunning
  /\ Truthy(pendingUrl)
  /\ \E req \in inflight :
       req.kind = "analysis" /\ req.cancelled /\ req.url = pendingUrl

\* C5: no analysis request that was in flight when cancelAnalysis returned
\* is still in flight afterwards.
C5_CancelAbortsAnalysis ==
  \A req \in inflight : req.kind = "analysis" => ~req.cancelled

\* C6: cancelAnalysis called while previewing leaves a null estimate, no
\* pending URL, no pending question and analysis phase idle, and issues
\* no request.
C6_CancelInPreviewDiscards ==
  [][(analysisPhase = "previewing" /\ CancelAnalysis)
     => /\ estimate' = NullEstimate
        /\ pendingUrl' = Null
        /\ pendingQuestion' = ""
        /\ analysisPhase' = "idle"
        /\ NewRequests = {}]_vars

\* C7: an analysis request is issued only from analysis phase previewing
\* with an estimate stored, and issuing it makes the phase analyzing and
\* starts the elapsed-time tracker.
C7_AnalysisOnlyAfterPreview ==
  [][(\E r \in NewRequests : r.kind = "analysis")
     => /\ analysisPhase = "previewing"
        /\ estimate # NullEstimate
        /\ analysisPhase' = "analyzing"
        /\ isRunning'
        /\ elapsedTime' = 0]_vars

\* the kind of target an estimate request was made for
TargetType(req) ==
  IF Truthy(req.url)
  THEN IF detectUrlType(req.url) = "figma" THEN "figma" ELSE "url"
  ELSE "file"

\* C8: when the estimate request fails, one diagnostic system entry is
\* appended, a fallback estimate of the target's type is stored and the
\* analysis phase becomes previewing.
C8_EstimateFailureFallsBack ==
  [][\A req \in inflight :
       (req.kind = "estimate" /\ Settles(req) /\ EstimateRejects)
       => /\ messages' = Append(messages,
                            Entry("system", "analysis", "Could not get estimate"))
          /\ estimate' # NullEstimate
          /\ estimate'.fallback
          /\ estimate'.type = TargetType(req)
          /\ estimate'.min_seconds <= estimate'.max_seconds
          /\ analysisPhase' = "previewing"]_vars

\* the preview shows a fallback estimate for a URL target
C8_Witness ==
  /\ analysisPhase = "previewing"
  /\ estimate # NullEstimate
  /\ estimate.fallback
  /\ estimate.type \in {"figma", "url"}
  /\ Len(messages) > 0
  /\ messages[Len(messages)].content = "Could not get estimate"

TooShort ==
  /\ contextGatheringPhase # "idle"
  /\ Trim(inputText) # ""
  /\ Len(Trim(inputText)) < (IF contextGatheringPhase = "asking_expertise" THEN 5 ELSE 10)

RepromptOf(phase) ==
  CASE phase = "asking_users" -> "reprompt_users"
    [] phase = "asking_expertise" -> "reprompt_expertise"
    [] phase = "asking_tasks" -> "reprompt_tasks"
    [] OTHER -> "reprompt_format"

\* C10 as stated: a too-short gathering reply leaves input text, files,
\* users, expertise, tasks, format, content type and the gathering phase
\* unchanged, and only a re-prompt is added to the transcript.
C10_ShortReplyChangesNothing ==
  [][(TooShort /\ Submit)
     => /\ UNCHANGED <<inputText, files, contextVars, contextGatheringPhase>>
        /\ messages' = Append(messages,
                          Entry("system", "analysis", RepromptOf(contextGatheringPhase)))]_vars

\* C10 amended: a too-short gathering reply leaves files, users, expertise,
\* tasks, format, content type, the gathering phase and the analysis phase
\* unchanged and issues no request; the input text is cleared and the
\* transcript gains the reply as a user entry followed by one re-prompt.
C10_ShortReplyReprompts ==
  [][(TooShort /\ Submit)
     => /\ UNCHANGED <<files, contextVars, contextGatheringPhase, analysisPhase>>
        /\ NewRequests = {}
        /\ inputText' = ""
        /\ messages' = messages \o
              <<Entry("user", "analysis", Trim(inputText)),
                Entry("system", "analysis", RepromptOf(contextGatheringPhase))>>]_vars

\* the users were accepted and a 2-character reply to the expertise
\* prompt was turned back
C10_Witness ==
  /\ contextGatheringPhase = "asking_expertise"
  /\ users # ""
  /\ expertise = ""
  /\ inputText = ""
  /\ Len(messages) = 2
  /\ messages[1] = Entry("user", "analysis", "hi")
  /\ messages[2] = Entry("system", "analysis", "reprompt_expertise")

AskingPhases == {"asking_users", "asking_expertise", "asking_tasks", "asking_format"}

\* the gathering phase that follows a phase
NextPhaseOf(phase) ==
  CASE phase = "idle" -> "asking_users"
    [] phase = "asking_users" -> "asking_expertise"
    [] phase = "asking_expertise" -> "asking_tasks"
    [] phase = "asking_tasks" -> "asking_format"
    [] OTHER -> "idle"

\* the context field a gathering phase asks for
FieldOf(phase) ==
  CASE phase = "asking_users" -> users
    [] phase = "asking_expertise" -> expertise
    [] phase = "asking_tasks" -> tasks
    [] OTHER -> format

\* the field of a gathering phase meets its minimum length
FieldMeetsMinimum(phase) ==
  Len(Trim(FieldOf(phase))) >= (IF phase = "asking_expertise" THEN 5 ELSE 10)

\* C11: the gathering phase only changes to the next phase of the order
\* asking_users, asking_expertise, tasks, format, idle; it leaves an asking
\* phase only with the answer stored in the field of that phase, and a
\* submitted answer of sufficient length always advances it.
C11_GatheringMovesForward ==
  [][/\ contextGatheringPhase' # contextGatheringPhase
        => contextGatheringPhase' = NextPhaseOf(contextGatheringPhase)
     /\ \A p \in AskingPhases :
          (contextGatheringPhase = p /\ contextGatheringPhase' # p)
          => /\ FieldOf(p)' = Trim(inputText)
             /\ FieldMeetsMinimum(p)'
     /\ (contextGatheringPhase # "idle" /\ Trim(inputText) # "" /\ ~TooShort /\ Submit)
        => contextGatheringPhase' = NextPhaseOf(contextGatheringPhase)]_vars

\* the four answers were given in order and gathering is over
C11_Witness ==
  /\ contextGatheringPhase = "idle"
  /\ hasFullContext(users, expertise, tasks, format)
  /\ analysisPhase = "estimating"
  /\ Len(messages) = 2
  /\ messages[2].content = "all_set"

\* C12: when a submit starts or continues gathering, the phase it moves to
\* asks for a field that is below its minimum length, and a submit never
\* changes a context field that already meets its minimum.
C12_OnlyMissingFieldsAsked ==
  [][/\ \A p \in AskingPhases :
          (contextGatheringPhase # p /\ contextGatheringPhase' = p)
          => ~FieldMeetsMinimum(p)'
     /\ \A p \in AskingPhases :
          (FieldMeetsMinimum(p) /\ Submit) => FieldOf(p)' = FieldOf(p)]_vars

\* C13: a submitted format answer of sufficient length is stored, ends the
\* gathering, appends the transition message and issues in the same step
\* exactly one estimate request, for the pending URL when a URL submit
\* started the gathering and for the attached files otherwise.
C13_CompletionEstimatesTarget ==
  [][(/\ contextGatheringPhase = "asking_format"
      /\ Trim(inputText) # ""
      /\ ~TooShort
      /\ Submit)
     => /\ format' = Trim(inputText)
        /\ contextGatheringPhase' = "idle"
        /\ messages'[Len(messages')] = Entry("system", "analysis", "all_set")
        /\ Cardinality(NewRequests) = 1
        /\ \A r \in NewRequests :
             /\ r.kind = "estimate"
             /\ IF gatheringStartedBy = "url"
                THEN Truthy(pendingUrl) /\ r.url = pendingUrl
                ELSE ~Truthy(r.url) /\ r.files = files]_vars

\* C14: every estimate request is issued with a complete context and a
\* target: a recognized URL or at least one attached file.
C14_EstimatePreconditions ==
  [][\A r \in NewRequests :
       r.kind = "estimate"
       => /\ hasFullContext(users', expertise', tasks', format')
          /\ Truthy(r.url) \/ Len(r.files) > 0]_vars

\* the text consists of white space only
Blank(text) == \A i \in 1..Len(text) : IsSpace(Ch(text, i))

\* the text holds, somewhere, a Figma file, design or proto URL
HasFigmaUrl(text) ==
  LET l == ToLowerCase(text)
  IN  \E scheme \in {"http://", "https://"}, www \in {"", "www."},
         kind \in {"file/", "design/", "proto/"} :
        LET lit == scheme \o www \o "figma.com/" \o kind
        IN  \E i \in 1..Len(l) :
              /\ i + Len(lit) <= Len(l)
              /\ SubSeq(l, i, i + Len(lit) - 1) = lit
              /\ IsAlnum(Ch(l, i + Len(lit)))

\* the text is, apart from white space around it, one http(s) URL
IsSingleUrl(text) ==
  LET l == ToLowerCase(Trim(text))
  IN  /\ \E scheme \in {"http://", "https://"} :
           Len(l) > Len(scheme) /\ SubSeq(l, 1, Len(scheme)) = scheme
      /\ \A i \in 1..Len(l) : ~IsSpace(Ch(l, i))

\* C15: with blank text and no files the detected mode is idle, whatever
\* the context fields hold.
C15_BlankInputIsIdle ==
  (Blank(inputText) /\ files = <<>>) => detectedMode = "idle"

\* blank but not empty text, no files, a complete context
C15_Witness ==
  /\ inputText = "  "
  /\ files = <<>>
  /\ hasFullContext(users, expertise, tasks, format)
  /\ detectedMode = "idle"

\* C16 as stated: with files attached and a complete context the detected
\* mode is analysis for every text.
C16_FilesAndContextIsAnalysis ==
  (Len(files) > 0 /\ hasFullContext(users, expertise, tasks, format))
  => detectedMode = "analysis"

\* C16 amended: with files attached, a complete context and a text that is
\* neither a single URL nor holds a Figma URL, the detected mode is
\* analysis and not hybrid.
C16_FilesAndContextNoUrlIsAnalysis ==
  (/\ Len(files) > 0
   /\ hasFullContext(users, expertise, tasks, format)
   /\ ~HasFigmaUrl(inputText)
   /\ ~IsSingleUrl(inputText))
  => detectedMode = "analysis"

\* files, a complete context and prose that mentions a website
C16_Witness ==
  /\ Len(files) > 0
  /\ hasFullContext(users, expertise, tasks, format)
  /\ inputText = "see http://a.io"
  /\ detectedMode = "analysis"

\* C17 as stated: with files attached, non-blank text and an incomplete
\* context the detected mode is hybrid.
C17_FilesTextNoContextIsHybrid ==
  (/\ Len(files) > 0
   /\ ~Blank(inputText)
   /\ ~hasFullContext(users, expertise, tasks, format))
  => detectedMode = "hybrid"

\* C17 amended: with files attached, an incomplete context and a non-blank
\* text that is neither a single URL nor holds a Figma URL, the detected
\* mode is hybrid.
C17_FilesTextNoContextNoUrlIsHybrid ==
  (/\ Len(files) > 0
   /\ ~Blank(inputText)
   /\ ~hasFullContext(users, expertise, tasks, format)
   /\ ~HasFigmaUrl(inputText)
   /\ ~IsSingleUrl(inputText))
  => detectedMode = "hybrid"

\* files, a question, and three of the four context fields filled in
C17_Witness ==
  /\ Len(files) > 0
  /\ inputText = "what is a trap"
  /\ Len(Trim(users)) >= 10 /\ Len(Trim(tasks)) >= 10 /\ Len(Trim(format)) >= 10
  /\ expertise = ""
  /\ detectedMode = "hybrid"

\* C18: a text that holds a Figma URL is classified figma; otherwise a text
\* that is one http(s) URL is classified url; otherwise the mode is one of
\* idle, analysis, hybrid, chat; and the mode is figma or url exactly when
\* a URL is detected in the text.
C18_UrlRulesFirst ==
  /\ HasFigmaUrl(inputText) => detectedMode = "figma"
  /\ (~HasFigmaUrl(inputText) /\ IsSingleUrl(inputText)) => detectedMode = "url"
  /\ (~HasFigmaUrl(inputText) /\ ~IsSingleUrl(inputText))
     => detectedMode \in {"idle", "analysis", "hybrid", "chat"}
  /\ detectedMode \in {"figma", "url"} <=> detectedUrl # Null

\* a Figma URL inside prose, with files and a complete context, is figma
C18_Witness ==
  /\ inputText = "see https://www.figma.com/design/Ab1 now"
  /\ Len(files) > 0
  /\ hasFullContext(users, expertise, tasks, format)
  /\ detectedUrl = "https://www.figma.com/design/Ab1"
  /\ detectedMode = "figma"

\* C19: a chat-mode submit appends the question as one user entry and
\* issues one chat request; when that request settles, with a reply or with
\* an error, one assistant entry is appended behind the user entry.
C19_ChatAddsUserThenAssistant ==
  [][/\ (contextGatheringPhase = "idle" /\ detectedMode = "chat" /\ Submit)
        => /\ messages' = Append(messages, Entry("user", "chat", Trim(inputText)))
           /\ Cardinality(NewRequests) = 1
           /\ \A r \in NewRequests : r.kind = "chat" /\ r.api = "sendChatMessage"
           /\ Cardinality({r \in inflight' : r.kind = "chat" /\ ~r.aborted}) = 1
     /\ \A req \in inflight :
          (req.kind = "chat" /\ Settles(req))
          => /\ Len(messages') = Len(messages) + 1
             /\ SubSeq(messages', 1, Len(messages)) = messages
             /\ messages'[Len(messages')].role = "assistant"
             /\ Len(messages) > 0 => messages[Len(messages)].role = "user"]_vars

\* a question was sent, the request failed, and the error notice follows
\* the question in the transcript
C19_Witness ==
  /\ Len(messages) = 2
  /\ messages[1] = Entry("user", "chat", "what is a trap")
  /\ messages[2].role = "assistant"
  /\ chatError # Null
  /\ ~chatLoading
  /\ inflight = {}

\* C20: confirming the preview of a file estimate issues one analysis
\* request with the attached files, and when that request returns its
\* result one assistant entry that carries the report is appended and the
\* analysis phase becomes idle.
C20_FileAnalysisAppendsReport ==
  [][/\ (/\ analysisPhase = "previewing"
         /\ estimate.type = "file"
         /\ ~Truthy(pendingUrl)
         /\ Len(files) > 0
         /\ ConfirmAnalysis)
        => /\ Cardinality(NewRequests) = 1
           /\ \A r \in NewRequests :
                r.kind = "analysis" /\ r.api = "unifiedAsk" /\ r.files = files
     /\ \A req \in inflight :
          (/\ req.kind = "analysis"
           /\ req.api = "unifiedAsk"
           /\ Len(req.files) > 0
           /\ ~req.cancelled
           /\ hasFullContext(users, expertise, tasks, format)
           /\ analysisPhase = "analyzing"
           /\ PendingRequests = {req}
           /\ Settles(req)
           /\ AnalysisResolves)
          => /\ Len(messages') = Len(messages) + 1
             /\ messages'[Len(messages')].role = "assistant"
             /\ messages'[Len(messages')].report
             /\ analysisPhase' = "idle"]_vars

\* C21: with an empty token a submit changes nothing at all, whatever the
\* phase: no state change, no transcript entry, no request issued.
C21_EmptyTokenSubmitIsNoop ==
  [][(token = "" /\ Submit) => UNCHANGED vars]_vars

\* the credential is gone while a prompt is open and an answer is typed, or
\* while a request is typed in an idle conversation
C21_Witness ==
  /\ token = ""
  /\ \/ contextGatheringPhase # "idle" /\ Trim(inputText) # ""
     \/ contextGatheringPhase = "idle" /\ detectedMode \notin {"idle", "chat"}
  /\ analysisPhase \in {"previewing", "idle"}

\* C22: a stray submit is a no-op and one field is solicited at a time: a
\* submit in an idle conversation whose input classifies as idle, and a submit
\* of a whitespace-only answer while a prompt is open, change nothing; no
\* submit adds more than one prompt to the transcript.
C22_StraySubmitIsNoop ==
  [][Submit =>
       LET Prompts(msgs) == Len(SelectSeq(msgs, LAMBDA e : e.role = "system"))
       IN  /\ (contextGatheringPhase = "idle" /\ detectedMode = "idle")
                 => UNCHANGED vars
           /\ (contextGatheringPhase # "idle" /\ Blank(inputText))
                 => UNCHANGED vars
           /\ Prompts(messages') <= Prompts(messages) + 1]_vars

\* a prompt is open and the input box holds only white space
C22_Witness ==
  /\ contextGatheringPhase # "idle"
  /\ inputText # ""
  /\ Blank(inputText)
  /\ ~isLoading

\* C23: the transcript is append-only: clearHistory empties it, and every
\* other step leaves the entries it had in place, as a prefix of the new
\* transcript.
C23_TranscriptAppendOnly ==
  [][IF ClearHistory
     THEN messages' = <<>>
     ELSE /\ Len(messages') >= Len(messages)
          /\ SubSeq(messages', 1, Len(messages)) = messages]_vars

\* a reply or an error entry was appended behind the question
C23_Witness ==
  /\ Len(messages) = 2
  /\ messages[1].role = "user"
  /\ messages[2].role = "assistant"
  /\ inflight = {}

\* C27 as stated: in every state with analysis phase analyzing or idle the
\* stored estimate is null.
C27_EstimateNullOutsidePreview ==
  analysisPhase \in {"analyzing", "idle"} => estimate = NullEstimate

\* C27: the estimate is discarded when the analysis request settles or the
\* flow is cancelled: in every state with analysis phase idle the stored
\* estimate is null.
C27_EstimateNullWhenIdle ==
  analysisPhase = "idle" => estimate = NullEstimate

\* an analysis has settled and the flow is idle again
C27_Witness ==
  /\ analysisPhase = "idle"
  /\ estimate = NullEstimate
  /\ messages # <<>>
  /\ messages[Len(messages)].content \in {"analysis_completed", "Analysis failed"}
  /\ inflight = {}

\* C29: whatever is selected, dropped and removed, an attached file set has
\* at most 10 files, at most one video, and no video next to an image.
C29_FileSetWithinLimits ==
  \A fs \in {files, analyzerFiles} :
    LET videos == {i \in 1..Len(fs) : FileType(fs[i]) \in VIDEO_TYPES}
        images == {i \in 1..Len(fs) : FileType(fs[i]) \in IMAGE_TYPES}
    IN  /\ Len(fs) <= 10
        /\ Cardinality(videos) <= 1
        /\ videos = {} \/ images = {}

\* the input box holds ten files, the upload form holds one video
C29_Witness ==
  /\ Len(files) = 10
  /\ files[10] = "b.jpg"
  /\ analyzerFiles = <<"v.mp4">>

\* C30 as stated: the stored history holds at most 10 entries, most recent
\* first, and every completion that carries a report writes exactly one
\* entry, which is then the head of the history.
C30_OneEntryPerReport ==
  /\ [](/\ Len(history) <= MAX_ENTRIES
        /\ \A i \in 1..Len(history) - 1 :
             history[i].timestamp >= history[i + 1].timestamp)
  /\ [][\A storage \in {"ok", "retry", "full"} :
          handleAnalysisComplete(TRUE, storage) =>
            /\ history' # <<>>
            /\ Head(history') = [id |-> now, timestamp |-> now]
            /\ Len(history') <= Len(history) + 1
            /\ Tail(history') = SubSeq(history, 1, Len(history') - 1)]_vars

\* C24: an invocation has one outcome: once a call has returned or thrown,
\* its outcome stays until the next invocation, also when the response
\* arrives late; a timer or signal that fires before the response makes the
\* call throw; and once the response has arrived the timer is no longer
\* armed and does not end the call.
C24_OneOutcomePerInvocation ==
  /\ [](call.settled <= 1)
  /\ [](call.state \in {"reading", "returned"} => call.timer = "cleared")
  /\ [][(Settled(call) /\ ~Invoke) =>
          /\ call'.state = call.state
          /\ call'.error = call.error
          /\ call'.settled = call.settled]_vars
  /\ [][(call.state = "fetching" /\ (TimerFires \/ ExternalAbort)) =>
          /\ call'.state = "threw"
          /\ call'.settled = 1]_vars

\* the timer ended a call and the response came in afterwards
C24_Witness ==
  /\ call.state = "threw"
  /\ call.cause = "timeout"
  /\ call.server = "responded"
  /\ call.settled = 1

\* C25: whichever way a call ends, its timer is no longer armed when the
\* call has settled.
C25_TimerClearedOnEveryExit ==
  Settled(call) => call.timer # "armed"

\* a call ended by a failure of the network
C25_Witness ==
  /\ call.state = "threw"
  /\ call.cause = "transport"
  /\ call.error = "Failed to fetch"
  /\ call.timer = "cleared"

\* C26: the Error a call throws tells which of the four kinds of failure
\* ended it: timeout, abort by the caller, transport failure, failure
\* reported by the application.
C26_FailureKindsDistinguishable ==
  call.state = "threw" =>
    LET kind == CASE call.error = ErrorMessage(call.fn, "timeout") -> "timeout"
                  [] call.error \in {ErrorMessage(call.fn, "http"), "error of the body"}
                       -> "application"
                  [] call.error \in {"Failed to fetch", "Unexpected end of JSON input"}
                       -> "transport"
                  [] OTHER -> "user"
    IN  call.cause = kind

\* C28: the timeout of the analysis request grows with its input: an
\* analysis of several files gets a longer timeout than the analysis of one
\* file, and a URL or Figma analysis gets a longer one than a one-file
\* analysis or a chat.
C28_TimeoutScalesWithInput ==
  \A r \in inflight :
    (r.kind = "analysis" /\ estimate # NullEstimate) =>
      /\ Len(r.files) > 1 =>
           RequestTimeout(r) > RequestTimeout([r EXCEPT !.files = <<"a.png">>])
      /\ r.api \in {"analyzeFigma", "analyzeUrl"} =>
           /\ RequestTimeout(r) > RequestTimeout([r EXCEPT !.api = "unifiedAsk"])
           /\ RequestTimeout(r) > RequestTimeout([r EXCEPT !.api = "sendChatMessage"])

\* C31: the analysis that a confirmation starts has the target of the
\* estimate on display: for an estimate of the attached files it is the file
\* analysis, for an estimate of a URL it is the analysis of that URL.
C31_AnalysisTargetIsEstimated ==
  (analysisPhase = "previewing" /\ inflight = {}) =>
    /\ estimate.type = "file" => AnalysisApi(pendingUrl) = "unifiedAsk"
    /\ estimate.type = "figma" => AnalysisApi(pendingUrl) = "analyzeFigma"
    /\ estimate.type = "url" =>
         AnalysisApi(pendingUrl) = "analyzeUrl" /\ pendingUrl = estimate.url

\* C32: when the estimate request that was in flight at a cancelAnalysis
\* later returns or fails, the analysis phase stays idle and no estimate is
\* stored.
C32_CancelledEstimateStaysIdle ==
  [][\A req \in inflight :
       (req.kind = "estimate" /\ req.cancelled /\ Settles(req)
          /\ (EstimateResolves \/ EstimateRejects) /\ analysisPhase = "idle")
       => (analysisPhase' = "idle" /\ estimate' = NullEstimate)]_vars

\* useChat.sendMessage called by a client of the hook with a message of its
\* own, whatever request is in flight
SendMessage ==
  \E t \in ChatPool :
    /\ sendMessage(t)
    /\ UNCHANGED <<token, clientVars, inputVars, contextVars, gatherVars, pipelineVars,
                   elapsedVars>>
    /\ Bounded

\* the chat hook on its own: sends that overlap, replies, failures
NextSend ==
  \/ SetInputTextChat
  \/ Submit
  \/ SendMessage
  \/ ChatResolves
  \/ ChatRejects
  \/ ClearHistory

SpecSend == Init /\ [][NextSend]_vars

\* C34: the settling of a chat request that a later sendMessage aborted
\* adds no entry to the transcript.
C34_SupersededChatAddsNoEntry ==
  [][\A req \in inflight :
       (req.kind = "chat" /\ req.aborted /\ Settles(req))
       => messages' = messages]_vars

\* C35: isLoading is true in every state in which a chat, estimate or
\* analysis request of the hooks is in flight.
C35_LoadingWhileInFlight == inflight # {} => isLoading

\* C37: after clearHistory the context-gathering phase is idle and neither
\* a pending question nor a pending URL remains.
C37_ClearHistoryReturnsToIdle ==
  [][ClearHistory =>
       /\ contextGatheringPhase' = "idle"
       /\ pendingQuestion' = ""
       /\ pendingUrl' = Null]_vars

\* C39: the stored entries have pairwise different ids, so that a
\* deleteAnalysis(id) removes exactly one entry.
C39_HistoryIdsUnique ==
  \A i, j \in 1..Len(history) : history[i].id = history[j].id => i = j

\* setInputText with a question or a website URL, in any
\* gathering phase
SetInputTextMode ==
  \E t \in {"what is a trap", "https://a.io/b"} :
    /\ ~isLoading
    /\ inputText' = t
    /\ UNCHANGED <<token, clientVars, files, contextVars, gatherVars, pipelineVars,
                   elapsedVars, chatVars, netVars>>

\* prompts answered with texts of every mode
NextAnswer ==
  \/ SetInputTextMode
  \/ SetFiles
  \/ Submit
  \/ EstimateResolves
  \/ EstimateRejects
  \/ ClearHistory

SpecAnswer == Init /\ [][NextAnswer]_vars

\* C36: a submit of non-blank text with the context-gathering phase not
\* idle is taken as the answer to the prompt: the text becomes the user entry,
\* no chat request is sent, the pending URL and question stay, and the only
\* request it can issue is the estimate of the pending submission after the
\* last prompt.
C36_SubmitWhileGatheringIsAnswer ==
  [][(Submit /\ token # "" /\ contextGatheringPhase # "idle" /\ ~Blank(inputText))
     => /\ SubSeq(messages', 1, Len(messages) + 1)
             = addUserMessage(messages, Trim(inputText), "analysis")
        /\ UNCHANGED <<pendingUrl, pendingQuestion, chatLoading, files>>
        /\ gatheringStartedBy' \in {gatheringStartedBy, "none"}
        /\ \A r \in NewRequests :
             /\ r.kind = "estimate"
             /\ contextGatheringPhase = "asking_format"
             /\ r.url = (IF Truthy(pendingUrl) THEN pendingUrl ELSE Null)]_vars

\* a URL typed at the users prompt was stored as the users, and the
\* expertise is asked next
C36_Witness ==
  /\ contextGatheringPhase = "asking_expertise"
  /\ IsSingleUrl(users)
  /\ inflight = {}

\* the pipeline with its elapsed-time tracker
NextElapsed ==
  \/ SetInputText
  \/ Submit
  \/ ConfirmAnalysis
  \/ CancelAnalysis
  \/ EstimateResolves
  \/ AnalysisResolves
  \/ AnalysisRejects
  \/ ClearHistory
  \/ Tick

SpecElapsed == Init /\ [][NextElapsed]_vars

C33_AbortedRunStaysReset ==
  [][(analyzer.request = "aborted" /\ analyzer'.request = "none")
     => /\ analyzer'.state.view = analyzer.state.view
        /\ analyzer'.state.error = analyzer.state.error
        /\ analyzer'.callback = analyzer.callback]_vars

\* C38: a RESET, dispatched by reset or by cancelAnalysis, keeps users,
\* expertise, tasks, format and content type and sets every other field of
\* the state to its initial value.
C38_ResetKeepsContext ==
  [][(AnalyzerReset \/ AnalyzerCancelAnalysis)
     => /\ \A f \in {"users", "expertise", "tasks", "format", "contentType"} :
             analyzer'.state[f] = analyzer.state[f]
        /\ \A f \in DOMAIN initialState
                    \ {"users", "expertise", "tasks", "format", "contentType"} :
             analyzer'.state[f] = initialState[f]
        /\ analyzerFiles' = <<>>]_vars

====
